---- MODULE Spec2Model ----
(***************************************************************************)
(* StickGame: a two-player stick-removal game, its players (fixed, random, *)
(* human, tabular learning agent) and the loops that drive them.           *)
(*                                                                         *)
(* Numbers that the program keeps as JavaScript doubles and that are not   *)
(* integers (table values, eps, lr, Math.random()) are exact rationals     *)
(* <<n, d>>, d > 0, in lowest terms.  With lr = 1/2 and the small dyadic   *)
(* table values used here the double arithmetic of the program is exact,   *)
(* so the rational arithmetic computes what the program computes; eps is   *)
(* only compared with Math.random().                                       *)
(***************************************************************************)
EXTENDS Integers, Sequences, FiniteSets, TLC

\* ------------------------------------------------------------------ bounds
MaxSize == 3          \* largest configured pile
MaxEpisodes == 1      \* restarts after construction
MaxTrain == 2         \* PlayerAI.train() calls
MaxEpoch == 2         \* nepoch of train(), ngames of test()
MaxOvershoot == 1     \* playNextTurn on a finished game is explored above -MaxOvershoot
MaxStuck == 2         \* turns explored of a game without actions
MaxRecords == 1       \* turnFinished is called directly on a player with fewer records and rewards
RandDen == 4          \* Math.random() is k / RandDen, k in 0 .. RandDen - 1

\* ------------------------------------------------------- JavaScript values
\* NaN, the pending nextState of a transition record; no pile has this value.
NaN == 1000
\* undefined, what an index outside an array reads; no pile has this value.
Undefined == 1001

\* a - b of two piles: NaN when one of them is undefined
Minus(a, b) == IF a = Undefined \/ b = Undefined THEN NaN ELSE a - b

\* arr[i - 1]: undefined outside the array
At(arr, i) == IF i \in DOMAIN arr THEN arr[i] ELSE Undefined

Abs(x) == IF x < 0 THEN -x ELSE x

RECURSIVE GCD(_, _)
GCD(a, b) == IF b = 0 THEN a ELSE GCD(b, a % b)

Rat(n, d) ==
    LET g == GCD(Abs(n), Abs(d))
        s == IF d < 0 THEN -1 ELSE 1
    IN  <<(s * n) \div g, (s * d) \div g>>

Zero == <<0, 1>>
RatOfInt(i) == <<i, 1>>
RatAdd(a, b) == Rat(a[1] * b[2] + b[1] * a[2], a[2] * b[2])
RatSub(a, b) == Rat(a[1] * b[2] - b[1] * a[2], a[2] * b[2])
RatMul(a, b) == Rat(a[1] * b[1], a[2] * b[2])
RatLess(a, b) == a[1] * b[2] < b[1] * a[2]
\* Math.floor of a non-negative rational
Floor(a) == a[1] \div a[2]

\* values[k] of a plain object: the stored number, or undefined when absent.
Has(values, k) == k \in DOMAIN values
\* values[k] || 0
OrZero(values, k) == IF Has(values, k) THEN values[k] ELSE Zero
\* values[a] < values[b]: a comparison with undefined is false
ValueLess(values, a, b) ==
    /\ Has(values, a)
    /\ Has(values, b)
    /\ RatLess(values[a], values[b])
\* values[k] = v
Put(values, k, v) == [x \in DOMAIN values \cup {k} |-> IF x = k THEN v ELSE values[x]]

\* ------------------------------------------------------------------ Player
\* randChoice(values) with Math.random() = r
randChoice(seq, r) == At(seq, Floor(RatMul(r, RatOfInt(Len(seq)))) + 1)

Randoms == {Rat(k, RandDen) : k \in 0 .. RandDen - 1}

Reverse(s) == [i \in 1 .. Len(s) |-> s[Len(s) + 1 - i]]

SetLast(h, f, v) == [h EXCEPT ![Len(h)] = [h[Len(h)] EXCEPT ![f] = v]]

NewPlayer(kind, values, eps) ==
    [kind |-> kind, history |-> <<>>, rewards |-> <<>>, winCount |-> 0,
     loseCount |-> 0, values |-> values, eps |-> eps]

\* resetStats that keeps the reward log
resetStats_keepsLog(p) == [p EXCEPT !.winCount = 0, !.loseCount = 0]

resetStats(p) == [p EXCEPT !.winCount = 0, !.loseCount = 0, !.rewards = <<>>]

\* gameRestart that resets the statistics with the history
gameRestart_resetsStats(p) == [resetStats(p) EXCEPT !.history = <<>>]

\* gameRestart that leaves the history as it is
gameRestart_keeps(p) == p

gameRestart(p) == [p EXCEPT !.history = <<>>]

\* turnFinished whose mover records the pile it produced as nextState
turnFinished_ownPile(p, isPlayerTurn, isGameOver, prevState, nextState, action) ==
    IF isPlayerTurn
    THEN LET pushed == Append(p.history,
                 [action |-> action, prevState |-> prevState,
                  nextState |-> nextState, reward |-> 0])
         IN  IF isGameOver
             THEN [p EXCEPT !.history = SetLast(pushed, "reward", -1),
                            !.rewards = Append(@, -1),
                            !.loseCount = @ + 1]
             ELSE [p EXCEPT !.history = pushed]
    ELSE IF Len(p.history) > 0
    THEN LET filled == SetLast(p.history, "nextState", nextState)
         IN  IF isGameOver
             THEN [p EXCEPT !.history = SetLast(filled, "reward", 1),
                            !.rewards = Append(@, 1),
                            !.winCount = @ + 1]
             ELSE [p EXCEPT !.history = filled]
    ELSE p

\* turnFinished without the update of the last transition's nextState
turnFinished_noFill(p, isPlayerTurn, isGameOver, prevState, nextState, action) ==
    IF isPlayerTurn
    THEN LET pushed == Append(p.history,
                 [action |-> action, prevState |-> prevState,
                  nextState |-> NaN, reward |-> 0])
         IN  IF isGameOver
             THEN [p EXCEPT !.history = SetLast(pushed, "reward", -1),
                            !.rewards = Append(@, -1),
                            !.loseCount = @ + 1]
             ELSE [p EXCEPT !.history = pushed]
    ELSE IF Len(p.history) > 0 /\ isGameOver
    THEN [p EXCEPT !.history = SetLast(p.history, "reward", 1),
                   !.rewards = Append(@, 1),
                   !.winCount = @ + 1]
    ELSE p

turnFinished(p, isPlayerTurn, isGameOver, prevState, nextState, action) ==
    IF isPlayerTurn
    THEN LET pushed == Append(p.history,
                 [action |-> action, prevState |-> prevState,
                  nextState |-> NaN, reward |-> 0])
         IN  IF isGameOver
             THEN [p EXCEPT !.history = SetLast(pushed, "reward", -1),
                            !.rewards = Append(@, -1),
                            !.loseCount = @ + 1]
             ELSE [p EXCEPT !.history = pushed]
    ELSE IF Len(p.history) > 0
    THEN LET filled == SetLast(p.history, "nextState", nextState)
         IN  IF isGameOver
             THEN [p EXCEPT !.history = SetLast(filled, "reward", 1),
                            !.rewards = Append(@, 1),
                            !.winCount = @ + 1]
             ELSE [p EXCEPT !.history = filled]
    ELSE p

\* ---------------------------------------------------------------- PlayerAI
lr == Rat(1, 2)

\* possibleNextStates.reduce((min, current) => ...), from element i on
RECURSIVE reduceMin(_, _, _, _)
reduceMin(values, seq, i, min) ==
    IF i > Len(seq) THEN min
    ELSE reduceMin(values, seq, i + 1,
                   IF ValueLess(values, seq[i], min) THEN seq[i] ELSE min)

greedyStep(values, possibleNextStates) ==
    reduceMin(values, possibleNextStates, 2, possibleNextStates[1])

\* reduce without initial value throws a TypeError on an empty array
greedyStepThrows(possibleNextStates) == possibleNextStates = <<>>

\* PlayerAI.play with Math.random() = r, and r2 drawn inside randChoice
PlayerAI_play(p, possibleNextStates, r, r2) ==
    IF RatLess(r, p.eps)
    THEN randChoice(possibleNextStates, r2)
    ELSE greedyStep(p.values, possibleNextStates)

\* the body of the loop of train() for one record
trainRecord(values, rec) ==
    LET prevStateValue == OrZero(values, rec.prevState)
        nextStateValue == OrZero(values, rec.nextState)
        updated ==
            IF rec.reward = 0
            THEN RatAdd(prevStateValue, RatMul(lr, RatSub(nextStateValue, prevStateValue)))
            ELSE RatAdd(prevStateValue, RatMul(lr, RatSub(RatOfInt(rec.reward), prevStateValue)))
    IN  Put(values, rec.prevState, updated)

\* the loop of train() over the records of h from index i on
RECURSIVE trainLoop(_, _, _)
trainLoop(values, h, i) ==
    IF i > Len(h) THEN values
    ELSE trainLoop(trainRecord(values, h[i]), h, i + 1)

\* train() over the history in the order of the turns
PlayerAI_train_forward(p) ==
    [p EXCEPT !.history = Reverse(p.history),
              !.values = trainLoop(p.values, p.history, 1)]

\* train() that empties the history once the table is updated
PlayerAI_train_clears(p) ==
    [p EXCEPT !.history = <<>>,
              !.values = trainLoop(p.values, Reverse(p.history), 1)]

\* PlayerAI.train(): history.reverse() reverses the array in place
PlayerAI_train(p) ==
    LET reversed == Reverse(p.history)
    IN  [p EXCEPT !.history = reversed,
                  !.values = trainLoop(p.values, reversed, 1)]

\* ------------------------------------------------------------- HumanPlayer
Digits == {"0", "1", "2", "3", "4"}
DigitVal == [c \in Digits |->
    IF c = "0" THEN 0 ELSE IF c = "1" THEN 1 ELSE IF c = "2" THEN 2
    ELSE IF c = "3" THEN 3 ELSE 4]

\* the value of the longest run of digits of s that starts at i, after acc
RECURSIVE parseDigits(_, _, _)
parseDigits(s, i, acc) ==
    IF i > Len(s) \/ s[i] \notin Digits THEN acc
    ELSE parseDigits(s, i + 1, 10 * acc + DigitVal[s[i]])

RECURSIVE skipSpace(_, _)
skipSpace(s, i) == IF i <= Len(s) /\ s[i] = " " THEN skipSpace(s, i + 1) ELSE i

\* parseInt(userInput, 10): leading blanks, a sign, digits; NaN without a digit
parseInt(s) ==
    LET i == skipSpace(s, 1)
        neg == i <= Len(s) /\ s[i] = "-"
        j == IF i <= Len(s) /\ s[i] \in {"-", "+"} THEN i + 1 ELSE i
    IN  IF j > Len(s) \/ s[j] \notin Digits THEN NaN
        ELSE IF neg THEN -parseDigits(s, j, 0) ELSE parseDigits(s, j, 0)

\* action !== NaN && action > 0 && action <= possibleNextStates.length
\* (x !== NaN is true of every x; a comparison with NaN is false)
validAction(action, possibleNextStates) ==
    /\ TRUE
    /\ action # NaN /\ action > 0
    /\ action # NaN /\ action <= Len(possibleNextStates)

\* --------------------------------------------------------------- StickGame
VARIABLES
    size,       \* StickGame.size
    actions,    \* StickGame.actions
    nstick,     \* StickGame.nstick
    finished,   \* StickGame.finished
    player,     \* StickGame.player: FALSE when player1 is to move
    startPlayer,\* the argument of the last restart (at first, of the constructor)
    players,    \* <<player1, player2>>
    variant,    \* "sync": readline-sync build, "async": terminal build
    pc,         \* "idle", "play" (playNextTurn awaits play), "input" / "retry" (it waits in
                \* HumanPlayer.play), "raised" (the last call threw)
    loop,       \* the running driver: "none" (calls in any order), "train",
                \* "test", "main"
    lpc,        \* where the driver is: "top", "play", "await" (it awaits
                \* playNextTurn), "done" ("none" without driver)
    epoch,      \* the loop counter of the driver (without driver: restarts made)
    ntrain      \* train() calls made

vars == <<size, actions, nstick, finished, player, startPlayer, players,
          variant, pc, loop, lpc, epoch, ntrain>>

game == <<nstick, finished, player, startPlayer, players>>

config == <<size, actions, variant, loop>>

Kinds == {"Fixed", "Random", "AI", "Human"}

ActionLists == {<<1, 2, 3>>, <<2, 1>>}

Table0 == <<>>
Table1 == (0 :> Rat(1, 2)) @@ (1 :> Rat(-1, 2))

Fixed == NewPlayer("Fixed", <<>>, Zero)
RandomPlayer == NewPlayer("Random", <<>>, Zero)
HumanPlayer == NewPlayer("Human", <<>>, Zero)
PlayerAI(values, eps) == NewPlayer("AI", values, eps)

\* the pairings the program builds (train, test, main), and the base Player
Pairings == {<<PlayerAI(Table0, Rat(1, 2)), PlayerAI(Table1, Zero)>>,
             <<PlayerAI(Table1, Zero), RandomPlayer>>,
             <<HumanPlayer, PlayerAI(Table1, Zero)>>,
             <<Fixed, RandomPlayer>>}

Inputs == {<<>>, <<"1">>, <<"2">>, <<"3">>, <<"4">>, <<"0">>, <<"x">>,
           <<"-", "1">>, <<" ", "2">>, <<"1", "x">>, <<"1", "0">>}

\* new StickGame(player1, player2, startPlayer, size, actions)
StickGame(player1, player2, start, sz, acts) ==
    /\ size = sz
    /\ actions = acts
    /\ nstick = sz
    /\ finished = FALSE
    /\ player = (start # 0)
    /\ startPlayer = start
    /\ players = <<gameRestart(player1), gameRestart(player2)>>

InitGame ==
    \E sz \in 1 .. MaxSize, acts \in ActionLists, pair \in Pairings,
       start \in {0, 1} :
        StickGame(pair[1], pair[2], start, sz, acts)

\* the two builds differ in HumanPlayer.play alone
Init ==
    /\ InitGame
    /\ variant \in {"sync", "async"}
    /\ (\A i \in 1 .. 2 : players[i].kind # "Human") => variant = "sync"
    /\ pc = "idle"
    /\ loop = "none"
    /\ lpc = "none"
    /\ epoch = 0
    /\ ntrain = 0

\* a game constructed with an empty array of actions
InitNoAction ==
    /\ \E sz \in 1 .. MaxSize, pair \in Pairings, start \in {0, 1} :
           StickGame(pair[1], pair[2], start, sz, <<>>)
    /\ variant \in {"sync", "async"}
    /\ (\A i \in 1 .. 2 : players[i].kind # "Human") => variant = "sync"
    /\ pc = "idle"
    /\ loop = "none"
    /\ lpc = "none"
    /\ epoch = 0
    /\ ntrain = 0

\* getPlayer(opponent), as an index into players
getPlayer(opponent) ==
    IF (player = FALSE /\ ~opponent) \/ (player = TRUE /\ opponent) THEN 1 ELSE 2

\* possibleNStick without the successors below zero
possibleNStick_legal ==
    SelectSeq([i \in 1 .. Len(actions) |-> nstick - actions[i]], LAMBDA n : n >= 0)

possibleNStick == [i \in 1 .. Len(actions) |-> nstick - actions[i]]

\* isOver that lets a game go on with an empty pile
isOver_belowZero(n) == n < 0

\* isOver with the test of the pile written as === 0
isOver_exactZero(n) == n = 0

\* if(this.nstick <= 0): a comparison with undefined is false
isOver(n) == n # Undefined /\ n <= 0

\* playNextTurn that leaves the player who made the terminal move active
turnDone_keepsLoserActive(next) ==
    LET prevNStick == nstick
        over == IF isOver(next) THEN TRUE ELSE finished
        m == getPlayer(FALSE)
        o == getPlayer(TRUE)
    IN  /\ nstick' = next
        /\ finished' = over
        /\ players' = [players EXCEPT
               ![m] = turnFinished(@, TRUE, over, prevNStick, next, Minus(prevNStick, next)),
               ![o] = turnFinished(@, FALSE, over, prevNStick, next, Minus(prevNStick, next))]
        /\ player' = IF over THEN player ELSE ~player
        /\ UNCHANGED startPlayer

\* playNextTurn from the return of player.play on
turnDone(next) ==
    LET prevNStick == nstick
        over == IF isOver(next) THEN TRUE ELSE finished
        m == getPlayer(FALSE)
        o == getPlayer(TRUE)
    IN  /\ nstick' = next
        /\ finished' = over
        /\ players' = [players EXCEPT
               ![m] = turnFinished(@, TRUE, over, prevNStick, next, Minus(prevNStick, next)),
               ![o] = turnFinished(@, FALSE, over, prevNStick, next, Minus(prevNStick, next))]
        /\ player' = ~player
        /\ UNCHANGED startPlayer

\* play whose base Player returns the last possible state
play_fixedLast(p, possibleNextStates, r, r2) ==
    IF p.kind = "AI" THEN PlayerAI_play(p, possibleNextStates, r, r2)
    ELSE IF p.kind = "Random" THEN randChoice(possibleNextStates, r)
    ELSE possibleNextStates[Len(possibleNextStates)]

\* what play returns for a player that does not wait for input
play(p, possibleNextStates, r, r2) ==
    IF p.kind = "AI" THEN PlayerAI_play(p, possibleNextStates, r, r2)
    ELSE IF p.kind = "Random" THEN randChoice(possibleNextStates, r)
    ELSE At(possibleNextStates, 1)

\* play throws: the greedy branch of PlayerAI.play on an empty array
playThrows(p, possibleNextStates, r) ==
    p.kind = "AI" /\ ~RatLess(r, p.eps) /\ greedyStepThrows(possibleNextStates)

restart(start) ==
    /\ startPlayer' = start
    /\ nstick' = size
    /\ finished' = FALSE
    /\ player' = (start # 0)
    /\ players' = [i \in 1 .. 2 |-> gameRestart(players[i])]

\* a caller may use the game again after a call that threw
Callable == pc \in {"idle", "raised"}

Explored ==
    /\ finished => nstick > -MaxOvershoot
    /\ actions = <<>> => Len(players[1].history) + Len(players[2].history) < MaxStuck

PlayNextTurn ==
    /\ Callable
    /\ Explored
    /\ players[getPlayer(FALSE)].kind # "Human"
    /\ \E r \in Randoms, r2 \in Randoms :
           IF playThrows(players[getPlayer(FALSE)], possibleNStick, r)
           THEN /\ pc' = "raised"
                /\ UNCHANGED game
           ELSE /\ turnDone(play(players[getPlayer(FALSE)], possibleNStick, r, r2))
                /\ pc' = "idle"
    /\ UNCHANGED <<config, lpc, epoch, ntrain>>

\* playNextTurn reaches HumanPlayer.play, which asks for the input
PlayNextTurnHuman ==
    /\ Callable
    /\ Explored
    /\ players[getPlayer(FALSE)].kind = "Human"
    /\ pc' = "input"
    /\ UNCHANGED <<config, game, lpc, epoch, ntrain>>

\* HumanPlayer.play receives userInput; playNextTurn goes on when it returns
HumanInput(userInput) ==
    /\ pc \in {"input", "retry"}
    /\ LET action == parseInt(userInput)
       IN  IF validAction(action, possibleNStick)
           THEN /\ turnDone(possibleNStick[action])
                /\ pc' = "idle"
           ELSE /\ pc' = IF variant = "sync" THEN "raised" ELSE "retry"
                /\ UNCHANGED game
    /\ UNCHANGED <<config, lpc, epoch, ntrain>>

Restart(start) ==
    /\ Callable
    /\ epoch < MaxEpisodes
    /\ restart(start)
    /\ epoch' = epoch + 1
    /\ pc' = "idle"
    /\ UNCHANGED <<config, lpc, ntrain>>

ResetStats(i) ==
    /\ Callable
    /\ players' = [players EXCEPT ![i] = resetStats(@)]
    /\ pc' = "idle"
    /\ UNCHANGED <<config, nstick, finished, player, startPlayer, lpc, epoch, ntrain>>

\* the methods of the game and resetStats, called in any order
Next ==
    \/ PlayNextTurn
    \/ PlayNextTurnHuman
    \/ \E userInput \in Inputs : HumanInput(userInput)
    \/ \E start \in {0, 1} : Restart(start)
    \/ \E i \in 1 .. 2 : ResetStats(i)

Spec == Init /\ [][Next]_vars

SpecNoAction == InitNoAction /\ [][Next]_vars

\* the caller plays a game on until it is finished
PlayInProgress ==
    /\ ~finished
    /\ PlayNextTurn

\* ------------------------------------ the methods of player1, called directly
\* a game of the base Player against a random player, with the default actions
InitCalls ==
    /\ \E sz \in 1 .. MaxSize, start \in {0, 1} :
           StickGame(Fixed, RandomPlayer, start, sz, <<1, 2, 3>>)
    /\ variant = "sync"
    /\ pc = "idle"
    /\ loop = "none"
    /\ lpc = "none"
    /\ epoch = 0
    /\ ntrain = 0

\* players[i].turnFinished(isPlayerTurn, isGameOver, prevState, nextState, action)
\* called by another caller than playNextTurn
TurnFinished(i, isPlayerTurn, isGameOver, prevState, nextState) ==
    /\ Len(players[i].history) < MaxRecords
    /\ Len(players[i].rewards) < MaxRecords
    /\ players' = [players EXCEPT ![i] =
           turnFinished(@, isPlayerTurn, isGameOver, prevState, nextState,
                        Minus(prevState, nextState))]
    /\ UNCHANGED <<config, nstick, finished, player, startPlayer, pc, lpc, epoch, ntrain>>

\* players[i].gameRestart() called by another caller than restart
GameRestart(i) ==
    /\ players[i].history # <<>>
    /\ players' = [players EXCEPT ![i] = gameRestart(@)]
    /\ UNCHANGED <<config, nstick, finished, player, startPlayer, pc, lpc, epoch, ntrain>>

NextCalls ==
    \/ PlayInProgress
    \/ \E start \in {0, 1} : Restart(start)
    \/ \E i \in 1 .. 2 : ResetStats(i)
    \/ \E isPlayerTurn \in BOOLEAN, isGameOver \in BOOLEAN :
           TurnFinished(1, isPlayerTurn, isGameOver, size, size - actions[1])
    \/ GameRestart(1)

SpecCalls == InitCalls /\ [][NextCalls]_vars

\* ------------------------------------------------- a caller that trains agents
\* games of an agent against an agent or a random player
InitAgent ==
    /\ Init
    /\ players[1].kind = "AI"
    /\ players[2].kind \in {"AI", "Random"}

\* train() is called on a finished game, any number of times
Train(i) ==
    /\ Callable
    /\ finished
    /\ players[i].kind = "AI"
    /\ ntrain < MaxTrain
    /\ players' = [players EXCEPT ![i] = PlayerAI_train(@)]
    /\ ntrain' = ntrain + 1
    /\ pc' = "idle"
    /\ UNCHANGED <<config, nstick, finished, player, startPlayer, lpc, epoch>>

NextAgent ==
    \/ PlayInProgress
    \/ \E start \in {0, 1} : Restart(start)
    \/ \E i \in 1 .. 2 : Train(i)
    \/ \E i \in 1 .. 2 : ResetStats(i)


SpecAgent == InitAgent /\ [][NextAgent]_vars

\* ------------------------------------------------------------ train, test
\* Math.max(eps * 0.996, 0.05)
decay(eps) ==
    LET e == RatMul(eps, Rat(996, 1000))
    IN  IF RatLess(e, Rat(5, 100)) THEN Rat(5, 100) ELSE e

\* train(playerAI, opponentAI) up to its loop
InitTrain ==
    /\ \E sz \in 1 .. MaxSize, acts \in ActionLists, r \in Randoms :
           StickGame(PlayerAI(Table0, Rat(1, 2)), PlayerAI(Table1, Zero),
                     randChoice(<<0, 1>>, r), sz, acts)
    /\ loop = "train"
    /\ lpc = "play"

\* test(playerAI) up to its loop
InitTest ==
    /\ \E sz \in 1 .. MaxSize, acts \in ActionLists :
           StickGame(PlayerAI(Table1, Zero), RandomPlayer, 0, sz, acts)
    /\ loop = "test"
    /\ lpc = "top"

InitLoop ==
    /\ InitTrain \/ InitTest
    /\ variant = "sync"
    /\ pc = "idle"
    /\ epoch = 0
    /\ ntrain = 0

\* while(!game.isFinished()) game.playNextTurn();
LoopPlay ==
    /\ lpc = "play"
    /\ ~finished
    /\ \E r \in Randoms, r2 \in Randoms :
           turnDone(play(players[getPlayer(FALSE)], possibleNStick, r, r2))
    /\ UNCHANGED <<config, pc, lpc, epoch, ntrain>>

\* the rest of the body of the loop of train(): both agents train, their eps
\* decays, the game restarts
TrainEpochEnd ==
    /\ loop = "train"
    /\ lpc = "play"
    /\ finished
    /\ \E r \in Randoms :
        /\ startPlayer' = randChoice(<<0, 1>>, r)
        /\ nstick' = size
        /\ finished' = FALSE
        /\ player' = (randChoice(<<0, 1>>, r) # 0)
        /\ players' = [i \in 1 .. 2 |->
               gameRestart([PlayerAI_train(players[i]) EXCEPT !.eps = decay(@)])]
    /\ epoch' = epoch + 1
    /\ ntrain' = ntrain + 2
    /\ lpc' = IF epoch + 1 < MaxEpoch THEN "play" ELSE "done"
    /\ UNCHANGED <<config, pc>>

\* test(): testGame.restart(randChoice([0, 1]))
TestRestart ==
    /\ loop = "test"
    /\ lpc = "top"
    /\ \E r \in Randoms : restart(randChoice(<<0, 1>>, r))
    /\ lpc' = "play"
    /\ UNCHANGED <<config, pc, epoch, ntrain>>

\* test(): the game is finished, i++
TestGameEnd ==
    /\ loop = "test"
    /\ lpc = "play"
    /\ finished
    /\ epoch' = epoch + 1
    /\ lpc' = IF epoch + 1 < MaxEpoch THEN "top" ELSE "done"
    /\ UNCHANGED <<config, game, pc, ntrain>>

NextLoop ==
    \/ LoopPlay
    \/ TrainEpochEnd
    \/ TestRestart
    \/ TestGameEnd

SpecLoop == InitLoop /\ [][NextLoop]_vars

\* the loops of train() and test(), whose inner while loop goes on playing
\* turns as long as its condition holds
SpecLoopFair == SpecLoop /\ WF_vars(LoopPlay)

\* ---------------------------------------------------- main: train, then test
\* main(): train(playerAI, opponentAI) has returned; playerAI.resetStats();
\* test(playerAI) builds new StickGame(playerAI, new RandomPlayer())
MainTest ==
    /\ loop = "train"
    /\ lpc = "done"
    /\ players' = <<gameRestart(resetStats(players[1])), gameRestart(RandomPlayer)>>
    /\ nstick' = size
    /\ finished' = FALSE
    /\ player' = FALSE
    /\ startPlayer' = 0
    /\ loop' = "test"
    /\ lpc' = "top"
    /\ epoch' = 0
    /\ UNCHANGED <<size, actions, variant, pc, ntrain>>

InitMainRun ==
    /\ InitTrain
    /\ variant = "sync"
    /\ pc = "idle"
    /\ epoch = 0
    /\ ntrain = 0

NextMainRun ==
    \/ LoopPlay
    \/ TrainEpochEnd
    \/ MainTest
    \/ TestRestart
    \/ TestGameEnd

SpecMainRun == InitMainRun /\ [][NextMainRun]_vars

\* ------------------------------------- the loops of the asynchronous build
\* main() after test(): new StickGame(player, playerAI); playerAI.eps = 0
InitMain ==
    /\ \E sz \in 1 .. MaxSize, acts \in ActionLists :
           StickGame(HumanPlayer, PlayerAI(Table1, Zero), 0, sz, acts)
    /\ loop = "main"
    /\ lpc = "top"

InitAsync ==
    /\ InitTrain \/ InitTest \/ InitMain
    /\ variant = "async"
    /\ pc = "idle"
    /\ epoch = 0
    /\ ntrain = 0

\* game.playNextTurn() is called: it runs up to await player.play(...)
AsyncCall ==
    /\ lpc = "play"
    /\ ~finished
    /\ pc' = IF players[getPlayer(FALSE)].kind = "Human" THEN "input" ELSE "play"
    /\ lpc' = "await"
    /\ UNCHANGED <<config, game, epoch, ntrain>>

\* the play of a player that waits for no input returns: playNextTurn goes on
AsyncPlayReturn ==
    /\ pc = "play"
    /\ \E r \in Randoms, r2 \in Randoms :
           turnDone(play(players[getPlayer(FALSE)], possibleNStick, r, r2))
    /\ pc' = "idle"
    /\ UNCHANGED <<config, lpc, epoch, ntrain>>

\* the caller that wrote playNextTurn() without await goes on at once
callerResumes_noAwait == TRUE

\* await game.playNextTurn(): the caller goes on when the call has returned
callerResumes == pc = "idle"

AsyncResume ==
    /\ lpc = "await"
    /\ callerResumes
    /\ lpc' = "play"
    /\ UNCHANGED <<config, game, pc, epoch, ntrain>>

\* main(): playerAI.resetStats(); game.restart(0);
MainRestart ==
    /\ loop = "main"
    /\ lpc = "top"
    /\ startPlayer' = 0
    /\ nstick' = size
    /\ finished' = FALSE
    /\ player' = FALSE
    /\ players' = [i \in 1 .. 2 |->
           gameRestart(IF i = 2 THEN resetStats(players[i]) ELSE players[i])]
    /\ lpc' = "play"
    /\ UNCHANGED <<config, pc, epoch, ntrain>>

\* main(): the game is finished, the result is printed; while(true) goes on
MainGameEnd ==
    /\ loop = "main"
    /\ lpc = "play"
    /\ finished
    /\ epoch' = epoch + 1
    /\ lpc' = IF epoch + 1 < MaxEpoch THEN "top" ELSE "done"
    /\ UNCHANGED <<config, game, pc, ntrain>>

NextAsync ==
    \/ AsyncCall
    \/ AsyncPlayReturn
    \/ \E userInput \in Inputs : HumanInput(userInput)
    \/ AsyncResume
    \/ TrainEpochEnd
    \/ TestRestart
    \/ TestGameEnd
    \/ MainRestart
    \/ MainGameEnd

SpecAsync == InitAsync /\ [][NextAsync]_vars

\* ================================================================== claims
Other(i) == 3 - i

\* a step in which playNextTurn ran to its end: the mover's history grew
TurnStep ==
    Len(players'[getPlayer(FALSE)].history) = Len(players[getPlayer(FALSE)].history) + 1

\* player l records the loss of the episode in this step
RecordsLoss(l) ==
    /\ players'[l].rewards = Append(players[l].rewards, -1)
    /\ players'[l].loseCount = players[l].loseCount + 1
    /\ players'[l].winCount = players[l].winCount

\* player w records the win of the episode in this step
RecordsWin(w) ==
    /\ players'[w].rewards = Append(players[w].rewards, 1)
    /\ players'[w].winCount = players[w].winCount + 1
    /\ players'[w].loseCount = players[w].loseCount

\* C1: the move that finishes a game makes exactly one player record -1 (one
\* entry -1 appended to its reward log, loseCount + 1) and the other record +1
\* (one entry +1 appended, winCount + 1), a first move that is terminal included.
C1_OneLoserOneWinner ==
    [][(~finished /\ finished') =>
          \E l \in 1 .. 2 : RecordsLoss(l) /\ RecordsWin(Other(l))]_vars

\* episodes the driver has played to the end
Completed == IF lpc = "play" /\ finished THEN epoch + 1 ELSE epoch

\* C2: after N completed episodes without resetStats, the win counts of the two
\* players sum to N and so do their lose counts.
C2_CountsSumToEpisodes ==
    /\ players[1].winCount + players[2].winCount = Completed
    /\ players[1].loseCount + players[2].loseCount = Completed

\* C3: a game that is not finished has a pile of at least 1, and a game is
\* finished exactly when its pile is <= 0, below zero as well as exactly zero.
C3_FinishedIffPileGone ==
    /\ ~finished => nstick >= 1
    /\ finished <=> nstick <= 0

\* C3 witness: a move overshot zero and the game is finished
C3_Overshoot ==
    /\ finished
    /\ nstick < 0
    /\ \E i \in 1 .. 2 : Len(players[i].history) > 0
           /\ players[i].history[Len(players[i].history)].prevState > 0

Mover == players[getPlayer(FALSE)]

\* the first index of seq whose value, 0 when the table has none, is minimal
FirstMinimum(values, seq) ==
    CHOOSE i \in 1 .. Len(seq) :
        /\ \A j \in 1 .. Len(seq) : ~RatLess(OrZero(values, seq[j]), OrZero(values, seq[i]))
        /\ \A j \in 1 .. i - 1 : RatLess(OrZero(values, seq[i]), OrZero(values, seq[j]))

\* C5: with eps = 0 the agent moves to the legal successor whose stored value
\* is minimal, a state absent from the table counting as 0 and the first of
\* equal minima winning.
C5_GreedyPicksMinimum ==
    [][(TurnStep /\ Mover.kind = "AI" /\ Mover.eps = Zero) =>
          nstick' = possibleNStick[FirstMinimum(Mover.values, possibleNStick)]]_vars

\* the update of the claim for one record: v_prev + lr * (target - v_prev)
C6_Update(values, rec) ==
    LET v_prev == IF rec.prevState \in DOMAIN values THEN values[rec.prevState] ELSE Zero
        v_next == IF rec.nextState \in DOMAIN values THEN values[rec.nextState] ELSE Zero
        target == IF rec.reward = 0 THEN v_next ELSE RatOfInt(rec.reward)
    IN  [x \in DOMAIN values \cup {rec.prevState} |->
            IF x = rec.prevState
            THEN RatAdd(v_prev, RatMul(lr, RatSub(target, v_prev)))
            ELSE values[x]]

\* the records h[k], h[k - 1], ..., h[1] applied in that order
RECURSIVE C6_Backward(_, _, _)
C6_Backward(values, h, k) ==
    IF k = 0 THEN values ELSE C6_Backward(C6_Update(values, h[k]), h, k - 1)

PrevStates(h) == {h[k].prevState : k \in 1 .. Len(h)}

\* C6: train() applies the update of each record of the episode from the most
\* recent record to the oldest, each on the table as the records after it left
\* it, and writes no key but the prevState of a record.
C6_TrainBackward ==
    [][(loop = "train" /\ epoch' = epoch + 1) =>
          \A i \in 1 .. 2 :
              /\ players'[i].values =
                     C6_Backward(players[i].values, players[i].history,
                                 Len(players[i].history))
              /\ DOMAIN players'[i].values =
                     DOMAIN players[i].values \cup PrevStates(players[i].history)
              /\ \A x \in DOMAIN players[i].values \ PrevStates(players[i].history) :
                     players'[i].values[x] = players[i].values[x]]_vars

\* C6 witness: the agent that began with an empty table lost 3 -> 2, 1 -> 0;
\* the value -1/2 written for pile 1 reached pile 3 in the same train()
C6_Propagated ==
    /\ loop = "train"
    /\ epoch >= 1
    /\ \E i \in 1 .. 2 :
           /\ DOMAIN players[i].values = {1, 3}
           /\ players[i].values[1] = Rat(-1, 2)
           /\ players[i].values[3] = Rat(-1, 4)

\* a step in which train() ran on one agent
TrainStep == ntrain' = ntrain + 1

\* C7 as claimed: train() leaves the agent without a transition record, and a
\* train() that follows before the next restart changes no table value.
C7_TrainClearsHistory ==
    [][TrainStep =>
          \E i \in 1 .. 2 :
              /\ players[i].kind = "AI"
              /\ players'[i].history = <<>>
              /\ players'[Other(i)] = players[Other(i)]]_vars

\* C7 amended: train() keeps every transition record and leaves the history in
\* the reverse order (restart is what empties it), and nothing but the table
\* and the order of the history of that agent changes.
C7_TrainReversesHistory ==
    [][TrainStep =>
          \E i \in 1 .. 2 :
              /\ players[i].kind = "AI"
              /\ players'[i].history = Reverse(players[i].history)
              /\ players'[i] = [players[i] EXCEPT !.history = players'[i].history,
                                                  !.values = players'[i].values]
              /\ players'[Other(i)] = players[Other(i)]]_vars

\* C7 witness: the only agent of the game was trained twice on the episode the
\* constructor began, and it still has its two records
C7_TrainedTwice ==
    /\ loop = "none"
    /\ epoch = 0
    /\ ntrain = 2
    /\ players[1].kind = "AI"
    /\ players[2].kind # "AI"
    /\ Len(players[1].history) >= 2
    /\ players[1].history[1].prevState > players[1].history[2].prevState

\* C8: play returns one of the successors it is offered, the base Player the
\* first of them, so a turn leaves the pile at the previous pile minus one of
\* the configured amounts.
C8_PlayReturnsLegal ==
    [][TurnStep =>
          /\ \E k \in 1 .. Len(actions) : nstick' = nstick - actions[k]
          /\ Mover.kind = "Fixed" => nstick' = possibleNStick[1]]_vars

\* C8 witness: the base Player moved first and took actions[1] = 2, Random replied
C8_FixedTookFirst ==
    /\ actions = <<2, 1>>
    /\ players[1].kind = "Fixed"
    /\ Len(players[1].history) >= 1
    /\ players[1].history[1].action = 2
    /\ Len(players[2].history) >= 1

\* C9: while HumanPlayer.play waits, an input that is no index of a successor
\* changes nothing of the game and is asked for again, never raised to the
\* caller; play returns the successor of a valid index.
C9_RepromptsNeverRaises ==
    [][(pc \in {"input", "retry"}) =>
          (\/ (pc' = "idle" /\ \E k \in 1 .. Len(actions) : nstick' = possibleNStick[k])
           \/ (pc' = "retry" /\ game' = game))]_vars

\* a step in which restart ran (without driver)
RestartStep == loop = "none" /\ epoch' = epoch + 1

\* C10: restart(i) sets the pile to the configured size, the game in progress,
\* the mover to player1 for i = 0 and player2 for i = 1, and empties both
\* histories; a further gameRestart leaves them empty.
C10_RestartResets ==
    [][RestartStep =>
          /\ nstick' = size
          /\ finished' = FALSE
          /\ startPlayer' = 0 => getPlayer(FALSE)' = 1
          /\ startPlayer' = 1 => getPlayer(FALSE)' = 2
          /\ \A i \in 1 .. 2 :
                 /\ players'[i].history = <<>>
                 /\ gameRestart(players'[i]).history = <<>>]_vars

\* C10 witness: restart(1) was called on a finished game that had records
C10_RestartedAfterGame ==
    /\ loop = "none"
    /\ epoch = 1
    /\ startPlayer = 1
    /\ player = TRUE
    /\ nstick = size
    /\ \A i \in 1 .. 2 : players[i].history = <<>> /\ Len(players[i].rewards) >= 1

\* a step in which resetStats ran: a call that is no turn, restart or train()
ResetStatsStep ==
    /\ Callable
    /\ nstick' = nstick
    /\ epoch' = epoch
    /\ ntrain' = ntrain

\* C11: restart (gameRestart) leaves winCount, loseCount, the reward log and
\* the value table of each player as they were; resetStats leaves the history
\* and the value table as they were; no step but train() changes a value table.
C11_StatsAndTablePersist ==
    [][\A i \in 1 .. 2 :
          /\ RestartStep =>
                 /\ players'[i].winCount = players[i].winCount
                 /\ players'[i].loseCount = players[i].loseCount
                 /\ players'[i].rewards = players[i].rewards
                 /\ players'[i].values = players[i].values
          /\ ResetStatsStep =>
                 /\ players'[i].history = players[i].history
                 /\ players'[i].values = players[i].values
          /\ ~TrainStep => players'[i].values = players[i].values]_vars

\* C11 witness: after a restart a second game was played to its end, the
\* trained agent kept the rewards of both games and its table, and the
\* statistics of the other player were reset while it kept its records
C11_KeptOverRestart ==
    /\ finished
    /\ epoch = 1
    /\ ntrain >= 1
    /\ \E i \in 1 .. 2 :
        /\ players[i].kind = "AI"
        /\ DOMAIN players[i].values # {}
        /\ Len(players[i].rewards) = 2
        /\ players[i].winCount + players[i].loseCount = 2
        /\ players[Other(i)].rewards = <<>>
        /\ Len(players[Other(i)].history) >= 1

\* C12: the list offered to the player to move has the successor pile - a of
\* each configured action a, at the position of a in the configured list,
\* zero and negative successors included; for pile 2 and actions (1, 2, 3) it
\* is (1, 0, -1).
C12_OffersEverySuccessor ==
    /\ Len(possibleNStick) = Len(actions)
    /\ \A k \in 1 .. Len(actions) : possibleNStick[k] = nstick - actions[k]
    /\ (nstick = 2 /\ actions = <<1, 2, 3>>) => possibleNStick = <<1, 0, -1>>

\* C12 witness: offered (1, 0, -1) at pile 2, the human player chose the
\* third entry and left the pile at -1
C12_TookThirdBelowZero ==
    /\ actions = <<1, 2, 3>>
    /\ nstick = -1
    /\ \E i \in 1 .. 2 :
        /\ players[i].kind = "Human"
        /\ Len(players[i].history) >= 1
        /\ players[i].history[Len(players[i].history)].prevState = 2
        /\ players[i].history[Len(players[i].history)].action = 3

\* C13: a game whose array of actions is empty never has its pile set to
\* undefined: a turn fails with an error and leaves the game as it was.
C13_EmptyActionsFailFast ==
    actions = <<>> =>
        /\ nstick # Undefined
        /\ \A i \in 1 .. 2 : players[i].history = <<>>

\* a playNextTurn has been called and has not returned
InFlight == pc \in {"play", "input", "retry"}

\* C14: in the loops of the asynchronous build, while a playNextTurn is in
\* flight its caller waits and stays waiting, no restart, train() or resetStats
\* runs and no second playNextTurn starts: the game changes only in the step
\* in which that turn completes with its notifications and returns.
C14_OneTurnInFlight ==
    [][InFlight =>
          /\ lpc = "await"
          /\ lpc' = "await"
          /\ epoch' = epoch
          /\ ntrain' = ntrain
          /\ \/ game' = game /\ pc' \in {"input", "retry"}
             \/ TurnStep /\ pc' = "idle"]_vars

\* C14 witness: in main() the human player was asked again after a bad input
\* while the agent already had a record of that game
C14_SuspendedMidGame ==
    /\ loop = "main"
    /\ pc = "retry"
    /\ lpc = "await"
    /\ Len(players[2].history) >= 1
    /\ ~finished

\* the player the last restart (or the constructor) made the first mover
Starter == startPlayer + 1

\* C15: a turn notifies the mover with isPlayerTurn = TRUE and the other
\* player with isPlayerTurn = FALSE, once each and with the same previous
\* pile, new pile, action = previous - new and game-over flag, then makes the
\* other player active, after the terminal move as well; so the turns of an
\* episode alternate, beginning with the player given to restart.
C15_BothNotifiedThenFlip ==
    [][/\ TurnStep =>
            /\ players'[getPlayer(FALSE)] =
                   turnFinished(Mover, TRUE, finished', nstick, nstick', nstick - nstick')
            /\ players'[getPlayer(TRUE)] =
                   turnFinished(players[getPlayer(TRUE)], FALSE, finished', nstick,
                                nstick', nstick - nstick')
            /\ player' = ~player
       /\ Len(players[Starter].history) - Len(players[Other(Starter)].history) \in {0, 1}
       /\ getPlayer(FALSE) = Starter <=>
              Len(players[Starter].history) = Len(players[Other(Starter)].history)]_vars

\* C15 witness: restart(1) made player2 the first mover, player2 made the
\* second and terminal move of its own, and player1 is the active player
C15_FlippedAfterTerminal ==
    /\ finished
    /\ epoch = 1
    /\ startPlayer = 1
    /\ Len(players[2].history) = 2
    /\ Len(players[1].history) = 1
    /\ players[2].history[2].reward = -1
    /\ getPlayer(FALSE) = 1

\* C16: once a game is finished, no call before the next restart changes the
\* pile, a history, a reward log or a win or lose count: playNextTurn on a
\* finished game leaves them all as they are (resetStats, which is asked to
\* clear the statistics, is left aside).
C16_FinishedIsTerminal ==
    [][(finished /\ ~RestartStep /\ ~ResetStatsStep) =>
          /\ nstick' = nstick
          /\ \A i \in 1 .. 2 :
                 /\ players'[i].history = players[i].history
                 /\ players'[i].rewards = players[i].rewards
                 /\ players'[i].winCount = players[i].winCount
                 /\ players'[i].loseCount = players[i].loseCount]_vars

\* C17: in the run of main, while test() plays its games the eps of the
\* trained agent is 0.
C17_TestedWithEpsZero ==
    (loop = "test" /\ lpc = "play") => players[1].eps = Zero

MinAction == CHOOSE a \in {actions[k] : k \in 1 .. Len(actions)} :
                 \A k \in 1 .. Len(actions) : a <= actions[k]

CeilDiv(a, b) == (a + b - 1) \div b

\* the turns played since the last restart
Turns == Len(players[1].history) + Len(players[2].history)

\* C18: each turn leaves the pile strictly smaller, an episode never has more
\* than ceil(size / least action) turns, and the loop that plays a game of
\* train() or test() ends with the game finished.
C18_EpisodesTerminate ==
    /\ [][TurnStep => nstick' < nstick]_vars
    /\ [](Turns <= CeilDiv(size, MinAction))
    /\ [](~finished => Turns < CeilDiv(size, MinAction))
    /\ (lpc = "play") ~> finished

\* C18 witness: a game of test() from a pile of MaxSize took the most turns it
\* can, one stick at a time
C18_LongestEpisode ==
    /\ loop = "test"
    /\ finished
    /\ size = MaxSize
    /\ MinAction = 1
    /\ Turns = MaxSize

\* every filled nextState is below the pile its own move left
FilledIsReply(h) ==
    \A k \in 1 .. Len(h) :
        h[k].nextState # NaN => h[k].nextState < h[k].prevState - h[k].action

\* the records of h follow each other as the turns of one player: a record
\* with reward 0 is filled with the prevState of the next record, and no
\* record but the last has another reward
Chained(h) ==
    \A k \in 1 .. Len(h) :
        /\ h[k].reward = 0 =>
               /\ h[k].nextState # NaN
               /\ k < Len(h)
               /\ h[k].nextState = h[k + 1].prevState
        /\ h[k].reward # 0 => k = Len(h)

Count(seq, v) == Cardinality({k \in 1 .. Len(seq) : seq[k] = v})

\* C20: whatever calls of turnFinished, resetStats, gameRestart, restart and
\* playNextTurn were made, the reward log of each player has winCount +
\* loseCount entries, each 1 or -1, winCount of them 1 and loseCount of them -1.
C20_LogMatchesCounts ==
    \A i \in 1 .. 2 :
        /\ Len(players[i].rewards) = players[i].winCount + players[i].loseCount
        /\ \A k \in 1 .. Len(players[i].rewards) : players[i].rewards[k] \in {1, -1}
        /\ Count(players[i].rewards, 1) = players[i].winCount
        /\ Count(players[i].rewards, -1) = players[i].loseCount

\* C20 witness: a player logged a loss and then a win while the statistics of
\* the other, who has played, are empty
C20_LossThenWin ==
    \E i \in 1 .. 2 :
        /\ players[i].rewards = <<-1, 1>>
        /\ players[i].winCount = 1
        /\ players[i].loseCount = 1
        /\ players[Other(i)].rewards = <<>>
        /\ players[Other(i)].history # <<>>

====
